---- MODULE Spec2Model ----
(***************************************************************************)
(* Model of the showimage page (src/unnamed/part_001): the request         *)
(* dispatcher Page_Load, the two descriptor parsers, createImage,          *)
(* createAndSaveImage, mustBeCached and saveImage, over a small file       *)
(* system (formula directory, cache directory) and an external renderer.   *)
(***************************************************************************)
EXTENDS Integers, Sequences, FiniteSets, TLC

(***************************************************************************)
(* Bounds of the model.                                                    *)
(***************************************************************************)
\* Number of renderer invocations explored in one behaviour.
MaxRenders == 2
\* Number of 8192-byte buffers an image stream is read in (saveImage's loop).
ImageChunks == 2

(***************************************************************************)
(* .NET string and path primitives, computed on TLA+ strings.              *)
(***************************************************************************)
Max(S) == CHOOSE x \in S : \A y \in S : y <= x

Min2(a, b) == IF a <= b THEN a ELSE b

CharAt(s, i) == SubSeq(s, i, i)

IsWhiteSpace(c) == c \in {" ", "\t", "\r", "\n"}

RECURSIVE TrimStart(_)
TrimStart(s) ==
    IF Len(s) > 0 /\ IsWhiteSpace(CharAt(s, 1))
    THEN TrimStart(SubSeq(s, 2, Len(s)))
    ELSE s

RECURSIVE TrimEnd(_)
TrimEnd(s) ==
    IF Len(s) > 0 /\ IsWhiteSpace(CharAt(s, Len(s)))
    THEN TrimEnd(SubSeq(s, 1, Len(s) - 1))
    ELSE s

\* String.Trim()
Trim(s) == TrimEnd(TrimStart(s))

\* String.LastIndexOfAny, 1-based, 0 when no character of cs occurs.
LastIndexOfAny(s, cs) ==
    LET I == {i \in 1..Len(s) : CharAt(s, i) \in cs}
    IN  IF I = {} THEN 0 ELSE Max(I)

\* String.IndexOf, 1-based, 0 when c does not occur.
IndexOf(s, c) ==
    LET I == {i \in 1..Len(s) : CharAt(s, i) = c}
    IN  IF I = {} THEN 0 ELSE CHOOSE i \in I : \A j \in I : i <= j

\* String.Split(c): the pieces between the occurrences of c.
RECURSIVE Split(_, _)
Split(s, c) ==
    LET i == IndexOf(s, c)
    IN  IF i = 0 THEN <<s>>
        ELSE <<SubSeq(s, 1, i - 1)>> \o Split(SubSeq(s, i + 1, Len(s)), c)

\* System.IO.Path.GetFileName: what follows the last directory separator.
GetFileName(path) ==
    SubSeq(path, LastIndexOfAny(path, {"/", "\\", ":"}) + 1, Len(path))

\* System.IO.Path.GetFileNameWithoutExtension (part_001 line 26).
GetFileNameWithoutExtension(path) ==
    LET name == GetFileName(path)
        dot  == LastIndexOfAny(name, {"."})
    IN  IF dot = 0 THEN name ELSE SubSeq(name, 1, dot - 1)

\* key.Length >= 4 && key.Substring(0, 4) == "font"
HasFontPrefix(key) == Len(key) >= 4 /\ SubSeq(key, 1, 4) = "font"

(***************************************************************************)
(* Hashtable: a function from string keys to values; a missing key reads   *)
(* as null, which callers test with Has.                                   *)
(***************************************************************************)
EmptyTable == [k \in {} |-> ""]

Has(h, k) == k \in DOMAIN h

Put(h, k, v) == [x \in (DOMAIN h) \cup {k} |-> IF x = k THEN v ELSE h[x]]

(***************************************************************************)
(* Libwiris tables (the library is not among the sources; the names are    *)
(* the ones part_001 reads).                                               *)
(***************************************************************************)
\* Libwiris.xmlFileAttributes: the fixed ordered list of attribute names.
xmlFileAttributes ==
    <<"bgColor", "symbolColor", "fontSize", "numberColor", "identColor">>

\* Libwiris.imageConfigProperties: remote parameter name -> config key.
imageConfigProperties ==
    [p \in {"bgColor", "symbolColor", "fontSize", "numberColor", "identColor"} |->
        CASE p = "bgColor"     -> "wirisimagebgcolor"
          [] p = "symbolColor" -> "wirisimagesymbolcolor"
          [] p = "fontSize"    -> "wirisimagefontsize"
          [] p = "numberColor" -> "wirisimagenumbercolor"
          [] p = "identColor"  -> "wirisimageidentcolor"]

\* Libwiris.inArray(needle, haystack)
inArray(needle, haystack) == \E i \in 1..Len(haystack) : haystack[i] = needle

\* Libwiris.loadConfig(configFile): the server configuration table.
loadConfig ==
    [k \in {"wirisimagefontranges", "rangeA"} |->
        IF k = "wirisimagefontranges" THEN "rangeA, rangeB" ELSE " 10-20 "]

\* Contents the configuration file can have: the one above, one with
\* defaults for the colours and three range names of which the middle one
\* has no value, and one without font ranges.
ServerConfigs ==
    { loadConfig,
      [k \in {"wirisimagefontranges", "rangeA", "rangeC",
              "wirisimagenumbercolor", "wirisimagebgcolor"} |->
          CASE k = "wirisimagefontranges"  -> " rangeA,rangeB , rangeC"
            [] k = "rangeA"                -> "10-20"
            [] k = "rangeC"                -> " 30-40"
            [] k = "wirisimagenumbercolor" -> "#999"
            [] k = "wirisimagebgcolor"     -> " #eee "],
      [k \in {"wirisimagesymbolcolor"} |-> "#abc"] }

\* Libwiris.parseIni: the key/value pairs of the file, a later pair of the
\* same key replacing an earlier one.
RECURSIVE parseIni(_)
parseIni(pairs) ==
    IF pairs = <<>> THEN EmptyTable
    ELSE LET n == Len(pairs)
         IN  Put(parseIni(SubSeq(pairs, 1, n - 1)), pairs[n][1], pairs[n][2])

(***************************************************************************)
(* The formula directory: descriptor files, read-only for this page.  An   *)
(* .ini file is given as its key/value pairs, an .xml file as its text.    *)
(***************************************************************************)
\* Descriptors by content, each stored in the directory once per format:
\* the payload, the values of some of the known attributes and the fonts in
\* order.
Attributes(bg, sym, size, num, ident) ==
    LET v == <<bg, sym, size, num, ident>>
    IN  [a \in {xmlFileAttributes[j] : j \in {i \in 1..5 : v[i] # "-"}} |->
            v[CHOOSE j \in 1..5 : xmlFileAttributes[j] = a]]

Descriptor(mathml, attributes, fonts) ==
    [mathml |-> mathml, attributes |-> attributes, fonts |-> fonts]

LogicalDescriptors ==
    << Descriptor("<math>a</math>", Attributes("-", "-", "-", "-", "-"), <<>>),
       Descriptor(" <math>b</math>", Attributes("#fff", " #111 ", "-", "-", "-"), <<>>),
       Descriptor("<math>c</math>", Attributes("#fff", "#111", "12", "-", "-"), <<>>),
       Descriptor("<math>d</math>", Attributes("#fff", "#111", "-", "#222", "-"), <<>>),
       Descriptor("<math>e</math>", Attributes("#fff", "#111", "12", "#222", "#333"),
                  <<"arial", "mono">>),
       Descriptor("<math>f</math>", Attributes("-", "#111", "-", "-", "-"), <<>>) >>

\* The identifier under which the i-th of them is stored.
WrittenId(i) == "w" \o ToString(i)

RECURSIVE JoinLines(_)
JoinLines(lines) ==
    IF Len(lines) = 1 THEN lines[1]
    ELSE lines[1] \o "\n" \o JoinLines(Tail(lines))

\* The legacy line format: the payload, one line per attribute up to the
\* last one set (all of them when fonts follow), then one line per font.
WriteLegacy(d) ==
    LET set == {j \in 1..Len(xmlFileAttributes) :
                    xmlFileAttributes[j] \in DOMAIN d.attributes}
        n   == IF d.fonts # <<>> THEN Len(xmlFileAttributes) ELSE Max(set \cup {0})
    IN  JoinLines(<<d.mathml>>
                  \o [j \in 1..n |-> IF j \in set
                                     THEN d.attributes[xmlFileAttributes[j]]
                                     ELSE ""]
                  \o d.fonts)

\* The key/value format: mml, the attributes set, font0, font1, ...
WriteIni(d) ==
    LET set == {j \in 1..Len(xmlFileAttributes) :
                    xmlFileAttributes[j] \in DOMAIN d.attributes}
        RECURSIVE Pairs(_)
        Pairs(j) ==
            IF j > Len(xmlFileAttributes) THEN <<>>
            ELSE (IF j \in set
                  THEN << <<xmlFileAttributes[j], d.attributes[xmlFileAttributes[j]]>> >>
                  ELSE <<>>) \o Pairs(j + 1)
    IN  << <<"mml", d.mathml>> >>
        \o Pairs(1)
        \o [i \in 1..Len(d.fonts) |-> <<"font" \o ToString(i - 1), d.fonts[i]>>]

WrittenIds == {WrittenId(i) : i \in 1..Len(LogicalDescriptors)}

WrittenFileNames == {id \o ext : id \in WrittenIds, ext \in {".xml", ".ini"}}

WrittenFile(f) ==
    LET i == CHOOSE i \in 1..Len(LogicalDescriptors) :
                 f \in {WrittenId(i) \o ".xml", WrittenId(i) \o ".ini"}
    IN  IF f = WrittenId(i) \o ".ini"
        THEN WriteIni(LogicalDescriptors[i])
        ELSE WriteLegacy(LogicalDescriptors[i])

FormulaFileNames ==
    {"eq1.ini", "eq1.xml", "secret.xml", "temp.xml", "nomml.ini", "badkey.ini",
     "only1.ini", "gap.ini"} \cup WrittenFileNames

FormulaFiles ==
    [f \in FormulaFileNames |->
        CASE f = "eq1.ini"    -> << <<"mml", " <math>1</math> ">>,
                                    <<"symbolColor", "#111">>,
                                    <<"fontSize", " 12 ">>,
                                    <<"font1", "arial">> >>
          [] f = "eq1.xml"    -> "<math>old</math>"
          [] f = "secret.xml" -> "<math>s</math>\n#fff\n#222\n14\n#00f\n#0f0\nserif\n\n mono"
          [] f = "temp.xml"   -> "<math>t</math>"
          [] f = "nomml.ini"  -> << <<"bgColor", "#fff">> >>
          [] f = "badkey.ini" -> << <<"mml", "<math>k</math>">>,
                                    <<"colour", "red">> >>
          [] f = "only1.ini"  -> << <<"mml", "<math>o</math>">>,
                                    <<"font1", " arial ">> >>
          [] f = "gap.ini"    -> << <<"mml", "<math>g</math>">>,
                                    <<"font2", "serif">>,
                                    <<"font9", "mono">>,
                                    <<"identColor", "#0f0">> >>
          [] OTHER            -> WrittenFile(f)]

\* File.Exists on the formula directory.
FormulaFileExists(name) == name \in FormulaFileNames

(***************************************************************************)
(* Query strings: the entries in order; AllKeys may hold a null key.       *)
(***************************************************************************)
Entry(k, v) == [null |-> FALSE, key |-> k, value |-> v]

NullEntry(v) == [null |-> TRUE, key |-> "", value |-> v]

Queries ==
    { << Entry("formula", "eq1") >>,
      << Entry("formula", "../secret") >>,
      << Entry("formula", "") >>,
      << Entry("formula", "temp") >>,
      << Entry("formula", "nomml") >>,
      << Entry("formula", "badkey") >>,
      << Entry("formula", "gone") >>,
      << Entry("formula", "eq1"), Entry("fontSize", "20") >>,
      << Entry("formula", "eq1"), Entry("fon", "x"), NullEntry("flag") >>,
      << Entry("formula", "temp"), Entry("font", "") >>,
      << Entry("formula", "gone"), Entry("numberColor", "#333") >>,
      << Entry("mml", "<math>a</math>") >>,
      << Entry("mml", "<math>b</math>"), Entry("numberColor", "#333") >>,
      << >> }

\* Request.QueryString[name] != null
HasParam(query, name) ==
    \E i \in 1..Len(query) : ~query[i].null /\ query[i].key = name

\* Request.QueryString[name]
Param(query, name) ==
    LET I == {i \in 1..Len(query) : ~query[i].null /\ query[i].key = name}
    IN  query[CHOOSE i \in I : \A j \in I : i <= j].value

\* mustBeCached without the test for the "font" prefix.
mustBeCachedAttributesOnly(query) ==
    ~ \E i \in 1..Len(query) :
        /\ ~query[i].null
        /\ inArray(query[i].key, xmlFileAttributes)

\* mustBeCached looking at the "font" prefix alone.
mustBeCachedFontsOnly(query) ==
    ~ \E i \in 1..Len(query) :
        /\ ~query[i].null
        /\ HasFontPrefix(query[i].key)

\* part_001 lines 232-243.
mustBeCached(query) ==
    ~ \E i \in 1..Len(query) :
        /\ ~query[i].null
        /\ \/ inArray(query[i].key, xmlFileAttributes)
           \/ HasFontPrefix(query[i].key)

(***************************************************************************)
(* Descriptor parsers.  Each returns threw = TRUE when the code raises an  *)
(* exception, else the mathml, the config table it wrote into and the      *)
(* fonts.                                                                  *)
(***************************************************************************)
ParseFailure(config) ==
    [threw |-> TRUE, mathml |-> "", config |-> config, fonts |-> EmptyTable]

\* part_001 lines 80-115: the lines of a legacy file read into the result.
getConfigurationAndFontsOfLines(config, lines) ==
    LET n == Len(lines)
        m == Min2(n - 1, Len(xmlFileAttributes))
        RECURSIVE SetAttributes(_, _)
        SetAttributes(c, j) ==
            IF j > m THEN c
            ELSE SetAttributes(
                    Put(c, imageConfigProperties[xmlFileAttributes[j]],
                        Trim(lines[j + 1])),
                    j + 1)
        RECURSIVE SetFonts(_, _, _)
        SetFonts(f, i, j) ==
            IF i > n THEN f
            ELSE LET line == Trim(lines[i])
                 IN  IF Len(line) > 0
                     THEN SetFonts(Put(f, "font" \o ToString(j), line), i + 1, j + 1)
                     ELSE SetFonts(f, i + 1, j)
    IN  [threw  |-> FALSE,
         mathml |-> Trim(lines[1]),
         config |-> SetAttributes(config, 1),
         fonts  |-> SetFonts(EmptyTable, m + 2, 0)]

\* part_001 lines 73-116 (legacy line format).
getConfigurationAndFonts(config, formulaFile) ==
    IF ~FormulaFileExists(formulaFile)
    THEN ParseFailure(config)              \* new StreamReader: file not found
    ELSE getConfigurationAndFontsOfLines(config,
                                         Split(FormulaFiles[formulaFile], "\n"))

\* The key/value parser made lenient: a key outside the table is skipped and
\* a missing mml reads as the empty string.
getConfigurationAndFontsOfTableLenient(config, formulaConfig) ==
    LET keys       == (DOMAIN formulaConfig) \ {"mml"}
        fontKeys   == {k \in keys : HasFontPrefix(k)}
        configKeys == {k \in keys \ fontKeys : k \in DOMAIN imageConfigProperties}
        written    == {imageConfigProperties[k] : k \in configKeys}
    IN  [threw  |-> FALSE,
         mathml |-> IF Has(formulaConfig, "mml")
                    THEN Trim(formulaConfig["mml"]) ELSE "",
         config |-> [x \in (DOMAIN config) \cup written |->
                       IF x \in written
                       THEN Trim(formulaConfig[
                              CHOOSE k \in configKeys :
                                  imageConfigProperties[k] = x])
                       ELSE config[x]],
         fonts  |-> [k \in fontKeys |-> Trim(formulaConfig[k])]]

\* part_001 lines 121-146: the table parseIni returned read into the result.
getConfigurationAndFontsOfTable(config, formulaConfig) ==
    LET keys       == (DOMAIN formulaConfig) \ {"mml"}
        fontKeys   == {k \in keys : HasFontPrefix(k)}
        configKeys == keys \ fontKeys
        \* imageConfigProperties[key] is null: config[null] = value throws
        unknown    == \E k \in configKeys : k \notin DOMAIN imageConfigProperties
        \* ((string)formulaConfig["mml"]).Trim() on null throws
        noMml      == ~Has(formulaConfig, "mml")
        written    == {imageConfigProperties[k] : k \in configKeys}
    IN  IF unknown \/ noMml
        THEN ParseFailure(config)
        ELSE [threw  |-> FALSE,
              mathml |-> Trim(formulaConfig["mml"]),
              config |-> [x \in (DOMAIN config) \cup written |->
                            IF x \in written
                            THEN Trim(formulaConfig[
                                   CHOOSE k \in configKeys :
                                       imageConfigProperties[k] = x])
                            ELSE config[x]],
              fonts  |-> [k \in fontKeys |-> Trim(formulaConfig[k])]]

\* part_001 lines 118-147 (key/value format).
getConfigurationAndFontsFromIni(config, formulaFile) ==
    getConfigurationAndFontsOfTable(config, parseIni(FormulaFiles[formulaFile]))

(***************************************************************************)
(* createImage up to the remote call: the render parameters.               *)
(***************************************************************************)
\* The retrocompatibility rule for the number colour alone.
RetrocompatibilityNumberOnly(config) ==
    IF ~Has(config, "wirisimagenumbercolor") /\ Has(config, "wirisimagesymbolcolor")
    THEN Put(config, "wirisimagenumbercolor", config["wirisimagesymbolcolor"])
    ELSE config

\* part_001 lines 154-166: the retrocompatibility rule.
Retrocompatibility(config) ==
    LET c1 == IF ~Has(config, "wirisimagenumbercolor")
                 /\ Has(config, "wirisimagesymbolcolor")
              THEN Put(config, "wirisimagenumbercolor",
                       config["wirisimagesymbolcolor"])
              ELSE config
    IN  IF ~Has(c1, "wirisimageidentcolor") /\ Has(c1, "wirisimagesymbolcolor")
        THEN Put(c1, "wirisimageidentcolor", c1["wirisimagesymbolcolor"])
        ELSE c1

\* FontRanges numbering a range by its place in the list, valued or not.
FontRangesByPosition(config, fonts) ==
    IF ~Has(config, "wirisimagefontranges") THEN fonts
    ELSE
    LET carry      == Cardinality(DOMAIN fonts)
        fontRanges == Split(config["wirisimagefontranges"], ",")
        RECURSIVE Loop(_, _)
        Loop(f, k) ==
            IF k > Len(fontRanges) THEN f
            ELSE LET fontRangeNameTrimmed == Trim(fontRanges[k])
                 IN  IF Has(config, fontRangeNameTrimmed)
                     THEN Loop(Put(f, "font" \o ToString(carry + k - 1),
                                   Trim(config[fontRangeNameTrimmed])),
                               k + 1)
                     ELSE Loop(f, k + 1)
    IN  Loop(fonts, 1)

\* FontRanges with a collision check: a number a descriptor font already
\* uses is passed over.
FontRangesSkippingTaken(config, fonts) ==
    IF ~Has(config, "wirisimagefontranges") THEN fonts
    ELSE
    LET carry      == Cardinality(DOMAIN fonts)
        fontRanges == Split(config["wirisimagefontranges"], ",")
        RECURSIVE Free(_)
        Free(n) == IF Has(fonts, "font" \o ToString(n)) THEN Free(n + 1) ELSE n
        RECURSIVE Loop(_, _, _)
        Loop(f, k, n) ==
            IF k > Len(fontRanges) THEN f
            ELSE LET fontRangeNameTrimmed == Trim(fontRanges[k])
                 IN  IF Has(config, fontRangeNameTrimmed)
                     THEN Loop(Put(f, "font" \o ToString(Free(n)),
                                   Trim(config[fontRangeNameTrimmed])),
                               k + 1, Free(n) + 1)
                     ELSE Loop(f, k + 1, n)
    IN  Loop(fonts, 1, carry)

\* part_001 lines 186-202: font ranges appended after the descriptor's fonts.
FontRanges(config, fonts) ==
    IF ~Has(config, "wirisimagefontranges") THEN fonts
    ELSE
    LET carry      == Cardinality(DOMAIN fonts)
        fontRanges == Split(config["wirisimagefontranges"], ",")
        RECURSIVE Loop(_, _, _)
        Loop(f, k, i) ==
            IF k > Len(fontRanges) THEN f
            ELSE LET fontRangeNameTrimmed == Trim(fontRanges[k])
                 IN  IF Has(config, fontRangeNameTrimmed)
                     THEN Loop(Put(f, "font" \o ToString(carry + i),
                                   Trim(config[fontRangeNameTrimmed])),
                               k + 1, i + 1)
                     ELSE Loop(f, k + 1, i)
    IN  Loop(fonts, 1, 0)

\* UserParams without the test on the key: every named parameter is copied.
RECURSIVE UserParamsEveryKey(_, _, _)
UserParamsEveryKey(properties, query, k) ==
    IF k > Len(query) THEN properties
    ELSE IF ~query[k].null
         THEN UserParamsEveryKey(
                  Put(properties, query[k].key, Param(query, query[k].key)),
                  query, k + 1)
         ELSE UserParamsEveryKey(properties, query, k + 1)

\* part_001 lines 211-220: the caller's parameters.
RECURSIVE UserParams(_, _, _)
UserParams(properties, query, k) ==
    IF k > Len(query) THEN properties
    ELSE IF /\ ~query[k].null
            /\ \/ inArray(query[k].key, xmlFileAttributes)
               \/ HasFontPrefix(query[k].key)
         THEN UserParams(Put(properties, query[k].key, Param(query, query[k].key)),
                         query, k + 1)
         ELSE UserParams(properties, query, k + 1)

\* part_001 lines 169-220: the parameters from the payload, the config
\* after the retrocompatibility rule, the fonts after the ranges and, with
\* useParams, the query.
createImageProperties(mathml, config, fonts, useParams, query) ==
    LET params  == {p \in DOMAIN imageConfigProperties :
                        Has(config, imageConfigProperties[p])}
        fromConfig ==
            [p \in {"mml"} \cup params |->
                IF p = "mml" THEN mathml
                ELSE Trim(config[imageConfigProperties[p]])]
        withFonts ==
            [p \in (DOMAIN fromConfig) \cup (DOMAIN fonts) |->
                IF p \in DOMAIN fonts THEN fonts[p] ELSE fromConfig[p]]
    IN  IF useParams THEN UserParams(withFonts, query, 1) ELSE withFonts

\* part_001 lines 152-202: the rule and the ranges on the parsed descriptor.
createImageConfigured(configAndFonts, config, file, useParams, query) ==
    [threw      |-> configAndFonts.threw,
     file       |-> file,
     config     |-> config,
     properties |-> IF configAndFonts.threw THEN EmptyTable
                    ELSE createImageProperties(
                             configAndFonts.mathml, config,
                             FontRanges(config, configAndFonts.fonts),
                             useParams, query)]

\* part_001 lines 152-221 on the parser's result.
createImageParsed(configAndFonts, file, useParams, query) ==
    createImageConfigured(configAndFonts,
                          Retrocompatibility(configAndFonts.config),
                          file, useParams, query)

\* part_001 lines 149-221: threw, or the properties handed to getContents,
\* and the config table as the call leaves it.
createImage(config, formulaPath, formulaPathExtension, useParams, query) ==
    createImageParsed(
        IF formulaPathExtension = "ini"
        THEN getConfigurationAndFontsFromIni(config, formulaPath \o ".ini")
        ELSE getConfigurationAndFonts(config, formulaPath \o ".xml"),
        formulaPath \o "." \o formulaPathExtension, useParams, query)

(***************************************************************************)
(* The cache directory, the renderer and the environment's outcomes.       *)
(***************************************************************************)
\* The cache files the requests of Queries can name, and the mml slot.
CacheFileNames ==
    {GetFileNameWithoutExtension(Param(q, "formula")) \o ".png" :
        q \in {r \in Queries : HasParam(r, "formula")}} \cup {"temp.png"}

NoFile == [exists |-> FALSE, bytes |-> <<>>]

\* The image the renderer returns on its serial-th invocation, as the
\* buffers saveImage reads it in.
Image(serial) == [i \in 1..ImageChunks |-> <<serial, i>>]

\* What the environment does to one request: the remote call returns
\* ("ok"), throws, or returns a stream that breaks after `read` buffers;
\* the cache file opens and is written, cannot be opened, or a Write
\* throws after `written` buffers.
Outcome(render, read, write, written) ==
    [render |-> render, read |-> read, write |-> write, written |-> written]

OutcomeOk == Outcome("ok", ImageChunks, "ok", ImageChunks)

Outcomes ==
    {OutcomeOk, Outcome("throws", 0, "ok", ImageChunks),
     Outcome("ok", ImageChunks, "openFails", 0)}
    \cup {Outcome("breaks", k, "ok", ImageChunks) : k \in 0..(ImageChunks - 1)}
    \cup {Outcome("ok", ImageChunks, "writeFails", j) : j \in 0..(ImageChunks - 1)}

VARIABLES
    cache,          \* cache directory: file name -> [exists, bytes]
    renderCalls,    \* invocations of the renderer so far
    cacheRenders,   \* per cache file: invocations by cacheable requests
    failed,         \* cache files for which a cacheable request rendered and threw
    last,           \* what the last request did (observation)
    build,          \* createImage on its own: the last call and its result
    procs,          \* requests handled at the same time, each at its step
    core,           \* the fields of one Core instance (JavaScript)
    page,           \* the objects around the Core: dialog, content manager
    call,           \* what the last call on the Core did (observation)
    loader,         \* Core.init: the string manager, scripts, events fired
    plugin          \* the CKEditor5 editors and their MathType plugin

vars == <<cache, renderCalls, cacheRenders, failed, last, build, procs, core, page, call, loader, plugin>>

\* The variables of the sequential page.
pageVars == <<cache, renderCalls, cacheRenders, failed, last>>

NoBuild == [kind |-> "none"]

NoProcs == <<>>

\* The variables of the Core instance and of what surrounds it.
coreVars == <<core, page, call>>

\* The variables of the image service.
serviceVars == <<cache, renderCalls, cacheRenders, failed, last, build, procs>>

NoCore == [kind |-> "none"]

NoLoader == [kind |-> "none"]

NoPlugin == <<>>

\* The JavaScript side is absent from the specifications of the service.
NoScript ==
    /\ core = NoCore /\ page = NoCore /\ call = NoCore
    /\ loader = NoLoader
    /\ plugin = NoPlugin

FileOp(op, dir, name) == [op |-> op, dir |-> dir, name |-> name]

\* Libwiris.getContents: the remote call (external).
getContents(properties, serial, out) ==
    [threw  |-> out.render = "throws",
     chunks |-> SubSeq(Image(serial), 1, out.read),
     broken |-> out.render = "breaks"]

\* part_001 lines 245-262.  FileMode.Create creates or truncates the file
\* before the first Read; each buffer read is written at once; when Read or
\* Write throws, nothing is closed and the file keeps the buffers written.
saveImage(c, imagePath, stream, out) ==
    IF out.write = "openFails"
    THEN [threw |-> TRUE, cache |-> c,
          ops |-> <<FileOp("create", "cache", imagePath)>>]
    ELSE
    LET writeThrows == out.write = "writeFails" /\ Len(stream.chunks) > out.written
        n == IF writeThrows THEN out.written ELSE Len(stream.chunks)
    IN  [threw |-> writeThrows \/ stream.broken,
         cache |-> [c EXCEPT ![imagePath] =
                        [exists |-> TRUE, bytes |-> SubSeq(stream.chunks, 1, n)]],
         ops   |-> <<FileOp("create", "cache", imagePath)>>
                   \o [i \in 1..n |-> FileOp("write", "cache", imagePath)]]

\* part_001 lines 24-31 and createImage's parameters, per query of Queries:
\* they depend on the query and the read-only formula directory only, so
\* they are tabulated once.
Dispatch(query) ==
    IF ~HasParam(query, "formula")
    THEN [kind |-> IF HasParam(query, "mml") THEN "mml" ELSE "none",
          formula |-> "", extension |-> "", cacheable |-> FALSE,
          img |-> [threw |-> FALSE, file |-> "", config |-> loadConfig,
                   properties |-> EmptyTable]]
    ELSE
    LET formula     == GetFileNameWithoutExtension(Param(query, "formula"))
        formulaPath == formula
        extension   == IF FormulaFileExists(formulaPath \o ".ini")
                       THEN "ini" ELSE "xml"
        cacheable   == mustBeCached(query)
    IN  [kind |-> "formula", formula |-> formula, extension |-> extension,
         cacheable |-> cacheable,
         img |-> createImage(loadConfig, formulaPath, extension, ~cacheable, query)]

Dispatched == [query \in Queries |-> Dispatch(query)]

\* part_001 lines 225-230; img is createImage's part before the remote call.
createAndSaveImage(c, img, imagePath, serial, out) ==
    LET stream == getContents(img.properties, serial, out)
        saved  == saveImage(c, imagePath, stream, out)
        opened == <<FileOp("read", "formula", img.file)>>
    IN  IF img.threw
        THEN [threw |-> TRUE, cache |-> c, ops |-> opened, renders |-> <<>>]
        ELSE IF stream.threw
        THEN [threw |-> TRUE, cache |-> c, ops |-> opened,
              renders |-> <<img.properties>>]
        ELSE [threw |-> saved.threw, cache |-> saved.cache,
              ops |-> opened \o saved.ops, renders |-> <<img.properties>>]

(***************************************************************************)
(* Page_Load, one request from its query to its response.  Each branch     *)
(* gives the cache it leaves, the renderer invocations it made (their      *)
(* parameters), the file operations in order and the response.             *)
(***************************************************************************)
Result(kind, formula, cacheable, imagePath, c, c2, renders, ops, status, body, text) ==
    [kind |-> kind, formula |-> formula, cacheable |-> cacheable,
     imagePath |-> imagePath, fileBefore |-> c[imagePath], cache |-> c2,
     renders |-> renders, ops |-> ops, status |-> status, body |-> body,
     text |-> text]

\* CachedBranch without the File.Exists test of line 36: renders on every call.
CachedBranchAlwaysRenders(c, d, serial, out) ==
    LET imagePath == d.formula \o ".png"
        made == createAndSaveImage(c, d.img, imagePath, serial, out)
        ops  == <<FileOp("exists", "formula", d.formula \o ".ini")>> \o made.ops
    IN  IF made.threw
        THEN Result("formula", d.formula, TRUE, imagePath, c, made.cache,
                    made.renders, ops, "exception", <<>>, "")
        ELSE Result("formula", d.formula, TRUE, imagePath, c, made.cache,
                    made.renders, ops \o <<FileOp("read", "cache", imagePath)>>,
                    "image", made.cache[imagePath].bytes, "")

\* part_001 lines 31-43: the cacheable branch.
CachedBranch(c, d, serial, out) ==
    LET imagePath == d.formula \o ".png"
        made == IF ~c[imagePath].exists
                THEN createAndSaveImage(c, d.img, imagePath, serial, out)
                ELSE [threw |-> FALSE, cache |-> c, ops |-> <<>>, renders |-> <<>>]
        ops  == <<FileOp("exists", "formula", d.formula \o ".ini"),
                  FileOp("exists", "cache", imagePath)>> \o made.ops
    IN  IF made.threw
        THEN Result("formula", d.formula, TRUE, imagePath, c, made.cache,
                    made.renders, ops, "exception", <<>>, "")
        ELSE Result("formula", d.formula, TRUE, imagePath, c, made.cache,
                    made.renders, ops \o <<FileOp("read", "cache", imagePath)>>,
                    "image", made.cache[imagePath].bytes, "")

\* DirectBranch answering from the cache file when there is one.
DirectBranchReadsCache(c, d, serial, out) ==
    LET img       == d.img
        imagePath == d.formula \o ".png"
        stream    == getContents(img.properties, serial, out)
        ops       == <<FileOp("exists", "formula", d.formula \o ".ini"),
                       FileOp("exists", "cache", imagePath)>>
    IN  IF c[imagePath].exists
        THEN Result("formula", d.formula, FALSE, imagePath, c, c, <<>>,
                    ops \o <<FileOp("read", "cache", imagePath)>>,
                    "image", c[imagePath].bytes, "")
        ELSE IF img.threw
        THEN Result("formula", d.formula, FALSE, imagePath, c, c,
                    <<>>, ops, "exception", <<>>, "")
        ELSE Result("formula", d.formula, FALSE, imagePath, c, c,
                    <<img.properties>>, ops,
                    IF stream.threw \/ stream.broken THEN "exception" ELSE "image",
                    stream.chunks, "")

\* part_001 lines 44-49: the branch taken when mustBeCached is false.
DirectBranch(c, d, serial, out) ==
    LET img    == d.img
        stream == getContents(img.properties, serial, out)
        ops    == <<FileOp("exists", "formula", d.formula \o ".ini"),
                    FileOp("read", "formula", img.file)>>
    IN  IF img.threw
        THEN Result("formula", d.formula, FALSE, d.formula \o ".png", c, c,
                    <<>>, ops, "exception", <<>>, "")
        ELSE IF stream.threw
        THEN Result("formula", d.formula, FALSE, d.formula \o ".png", c, c,
                    <<img.properties>>, ops, "exception", <<>>, "")
        ELSE Result("formula", d.formula, FALSE, d.formula \o ".png", c, c,
                    <<img.properties>>, ops,
                    IF stream.broken THEN "exception" ELSE "image",
                    stream.chunks, "")

\* MmlBranch treating temp.png as a cache: an existing slot is served as is.
MmlBranchReusesSlot(c, query, serial, out) ==
    LET imagePath  == "temp.png"
        properties == [k \in {"mml"} |-> Param(query, "mml")]
        stream     == getContents(properties, serial, out)
        saved      == saveImage(c, imagePath, stream, out)
    IN  IF c[imagePath].exists
        THEN Result("mml", "", FALSE, imagePath, c, c, <<>>,
                    <<FileOp("read", "cache", imagePath)>>,
                    "image", c[imagePath].bytes, "")
        ELSE IF stream.threw
        THEN Result("mml", "", FALSE, imagePath, c, c, <<properties>>, <<>>,
                    "exception", <<>>, "")
        ELSE IF saved.threw
        THEN Result("mml", "", FALSE, imagePath, c, saved.cache, <<properties>>,
                    saved.ops, "exception", <<>>, "")
        ELSE Result("mml", "", FALSE, imagePath, c, saved.cache, <<properties>>,
                    saved.ops \o <<FileOp("read", "cache", imagePath)>>,
                    "image", saved.cache[imagePath].bytes, "")

\* part_001 lines 51-65: the raw mml request.
MmlBranch(c, query, serial, out) ==
    LET imagePath  == "temp.png"
        properties == [k \in {"mml"} |-> Param(query, "mml")]
        stream     == getContents(properties, serial, out)
        saved      == saveImage(c, imagePath, stream, out)
    IN  IF stream.threw
        THEN Result("mml", "", FALSE, imagePath, c, c, <<properties>>, <<>>,
                    "exception", <<>>, "")
        ELSE IF saved.threw
        THEN Result("mml", "", FALSE, imagePath, c, saved.cache, <<properties>>,
                    saved.ops, "exception", <<>>, "")
        ELSE Result("mml", "", FALSE, imagePath, c, saved.cache, <<properties>>,
                    saved.ops \o <<FileOp("read", "cache", imagePath)>>,
                    "image", saved.cache[imagePath].bytes, "")

\* NoDigestBranch resolving the cache slot before it looks at the parameters.
NoDigestBranchProbesCache(c) ==
    Result("none", "", FALSE, "temp.png", c, c, <<>>,
           <<FileOp("exists", "cache", "temp.png")>>, "text", <<>>,
           "Error: no digest or mathml has been sent")

\* part_001 lines 66-68.
NoDigestBranch(c) ==
    Result("none", "", FALSE, "temp.png", c, c, <<>>, <<>>, "text", <<>>,
           "Error: no digest or mathml has been sent")

\* Libwiris.configFile: the server's configuration file.
configFile == "configuration.ini"

\* The file operation of Libwiris.loadConfig(MapPath(configFile)) at
\* part_001 line 22: the table is read from the file on every call.
loadConfigOps == <<FileOp("read", "config", configFile)>>

\* part_001 lines 24-68: the branch on the request's parameters.
HandleDispatched(c, d, query, serial, out) ==
    IF d.kind = "formula"
    THEN IF d.cacheable
         THEN CachedBranch(c, d, serial, out)
         ELSE DirectBranch(c, d, serial, out)
    ELSE IF d.kind = "mml"
    THEN MmlBranch(c, query, serial, out)
    ELSE NoDigestBranch(c)

\* The operations of a request: the load of the configuration, then the
\* branch's.
WithConfigLoad(r) == [r EXCEPT !.ops = loadConfigOps \o @]

\* part_001 lines 20-69: the configuration is loaded before the request's
\* parameters are looked at.
HandleRequest(c, query, serial, out) ==
    WithConfigLoad(HandleDispatched(c, Dispatched[query], query, serial, out))

\* Whether the environment's outcome `out` bears on a request with result r:
\* a failure of the remote call needs a remote call, a failure of the cache
\* write needs a request that saves what it rendered.
Reaches(r, out) ==
    \/ out = OutcomeOk
    \/ /\ Len(r.renders) > 0
       /\ out.write # "ok" => (r.kind = "mml" \/ r.cacheable)

Init ==
    /\ cache = [f \in CacheFileNames |-> NoFile]
    /\ renderCalls = 0
    /\ cacheRenders = [f \in CacheFileNames |-> 0]
    /\ failed = {}
    /\ last = [kind |-> "init"]
    /\ build = NoBuild
    /\ procs = NoProcs
    /\ NoScript

Page_Load(query, out) ==
    /\ \E r \in {HandleRequest(cache, query, renderCalls + 1, out)} :
           /\ Reaches(r, out)
           /\ renderCalls + Len(r.renders) <= MaxRenders
           /\ cache' = r.cache
           /\ renderCalls' = renderCalls + Len(r.renders)
           /\ cacheRenders' =
                 IF r.kind = "formula" /\ r.cacheable
                 THEN [cacheRenders EXCEPT ![r.imagePath] = @ + Len(r.renders)]
                 ELSE cacheRenders
           /\ failed' =
                 IF /\ r.kind = "formula" /\ r.cacheable
                    /\ Len(r.renders) > 0 /\ r.status = "exception"
                 THEN failed \cup {r.imagePath}
                 ELSE failed
           /\ last' = [kind |-> r.kind, query |-> query, out |-> out,
                       formula |-> r.formula, cacheable |-> r.cacheable,
                       imagePath |-> r.imagePath, fileBefore |-> r.fileBefore,
                       renders |-> r.renders, serial |-> renderCalls + 1,
                       ops |-> r.ops, status |-> r.status, body |-> r.body,
                       text |-> r.text]
    /\ UNCHANGED <<build, procs, coreVars, loader, plugin>>

Next == \E query \in Queries, out \in Outcomes : Page_Load(query, out)

Spec == Init /\ [][Next]_vars

(***************************************************************************)
(* createImage on its own: the parameters it builds, for descriptors,      *)
(* server configurations and query strings drawn from bounded sets.  The   *)
(* calls follow one another as the requests of one server do.              *)
(***************************************************************************)
\* The descriptors createImage is called for: identifier and the extension
\* found by the probe of line 29.
BuildFiles ==
    {[id |-> id, ext |-> ext] : id \in WrittenIds, ext \in {"xml", "ini"}}
    \cup {[id |-> "only1", ext |-> "ini"], [id |-> "gap", ext |-> "ini"],
          [id |-> "eq1", ext |-> "ini"], [id |-> "secret", ext |-> "xml"],
          [id |-> "badkey", ext |-> "ini"]}

\* Query strings of the calls, without the formula parameter's value
\* mattering: no override, overrides of attributes and fonts, other names.
BuildQueries ==
    { << Entry("formula", "x") >>,
      << Entry("formula", "x"), Entry("fontSize", "20"), Entry("mml", "<q/>") >>,
      << Entry("formula", "x"), Entry("font1", "times"), Entry("other", "y"),
         NullEntry("flag") >>,
      << Entry("formula", "x"), Entry("numberColor", "#444"), Entry("fon", "z") >>,
      << Entry("formula", "x"), Entry("fon", "z"), Entry("other", "y"),
         NullEntry("font1") >> }

\* The config table a request keeps the configuration in, were it a static
\* field loaded once: the table the request before wrote into.
RequestConfigStatic(server, leftover) == leftover

\* part_001 line 22: the table a request works on is the one loadConfig
\* returns for this request, read from the configuration file; the table of
\* the request before is not reachable from it.
RequestConfig(server, leftover) == server

InitBuild ==
    /\ cache = [f \in CacheFileNames |-> NoFile]
    /\ renderCalls = 0
    /\ cacheRenders = [f \in CacheFileNames |-> 0]
    /\ failed = {}
    /\ last = [kind |-> "init"]
    /\ procs = NoProcs
    /\ NoScript
    /\ \E server \in ServerConfigs :
           build = [kind |-> "loaded", server |-> server, leftover |-> server]

\* One call of createImage, as Page_Load makes it for a formula request.
Build(d, query, useParams) ==
    /\ build.kind \in {"loaded", "built"}
    /\ build' =
          LET img == createImage(RequestConfig(build.server, build.leftover),
                                 d.id, d.ext, useParams, query)
          IN  [kind |-> "built", server |-> build.server,
               id |-> d.id, ext |-> d.ext, query |-> query,
               useParams |-> useParams, threw |-> img.threw,
               properties |-> img.properties,
               afterWrite |-> build.leftover # build.server,
               leftover |-> img.config]
    /\ UNCHANGED <<pageVars, procs, coreVars, loader, plugin>>

NextBuild ==
    \E d \in BuildFiles, query \in BuildQueries, useParams \in BOOLEAN :
        Build(d, query, useParams)

SpecBuild == InitBuild /\ [][NextBuild]_vars

(***************************************************************************)
(* Requests handled at the same time.  ASP.NET runs Page_Load of different *)
(* requests on different threads; the page takes no lock, so the steps of  *)
(* two requests on the cache directory interleave freely.  A step is one   *)
(* call on the file system or the renderer.                                *)
(***************************************************************************)
Procs == {"p1", "p2"}

\* The requests in flight: a cacheable formula request and the raw-mml
\* requests of two payloads.
ConcQueries ==
    { << Entry("formula", "eq1") >>,
      << Entry("mml", "<math>a</math>") >>,
      << Entry("mml", "<math>b</math>"), Entry("numberColor", "#333") >> }

\* The slot of a raw-mml request named after its payload.
MmlImagePathPerPayload(query) ==
    IF Param(query, "mml") = "<math>a</math>" THEN "temp.png" ELSE "eq1.png"

\* part_001 lines 53-54: the one slot of every raw-mml request.
MmlImagePath(query) == "temp.png"

\* part_001 lines 33-34.
FormulaImagePath(formula) == formula \o ".png"

\* A request at line 24 of Page_Load.
Started(query) ==
    LET d == Dispatched[query]
    IN  [query |-> query, kind |-> d.kind,
         path |-> IF d.kind = "formula" THEN FormulaImagePath(d.formula)
                  ELSE MmlImagePath(query),
         pc |-> IF d.kind = "formula" THEN "exists" ELSE "render",
         saw |-> FALSE, serial |-> 0, properties |-> EmptyTable, sent |-> 0,
         after |-> {}, status |-> "", body |-> <<>>]

InitConc ==
    /\ cache = [f \in CacheFileNames |-> NoFile]
    /\ renderCalls = 0
    /\ cacheRenders = [f \in CacheFileNames |-> 0]
    /\ failed = {}
    /\ last = [kind |-> "init"]
    /\ build = NoBuild
    /\ procs \in [Procs -> {Started(query) : query \in ConcQueries}]
    /\ NoScript

\* The file is held open for writing by a request other than p: the
\* FileStream of line 248 shares the file for reading only, until line 260.
HeldOpen(f, p) ==
    \E o \in Procs \ {p} : procs[o].pc = "write" /\ procs[o].path = f

\* part_001 line 36: File.Exists(imagePath), then the branch.
FileExists(p) ==
    /\ procs[p].pc = "exists"
    /\ procs' = [procs EXCEPT ![p].saw = cache[procs[p].path].exists,
                              ![p].pc = IF cache[procs[p].path].exists
                                        THEN "serve" ELSE "render"]
    /\ UNCHANGED <<cache, renderCalls, cacheRenders, failed, last, build, coreVars, loader, plugin>>

\* part_001 lines 227 and 59: the renderer is called and returns its stream.
Render(p) ==
    /\ procs[p].pc = "render"
    /\ renderCalls < MaxRenders
    /\ renderCalls' = renderCalls + 1
    /\ procs' = [procs EXCEPT
                   ![p].serial = renderCalls + 1,
                   ![p].properties =
                       IF procs[p].kind = "formula"
                       THEN Dispatched[procs[p].query].img.properties
                       ELSE [k \in {"mml"} |-> Param(procs[p].query, "mml")],
                   ![p].pc = "open"]
    /\ UNCHANGED <<cache, cacheRenders, failed, last, build, coreVars, loader, plugin>>

\* FileMode.Append in place of FileMode.Create: the bytes there are kept.
CreateFileKeepingBytes(file) == [exists |-> TRUE, bytes |-> file.bytes]

\* part_001 line 248: FileMode.Create makes the file or empties it.
CreateFile(file) == [exists |-> TRUE, bytes |-> <<>>]

\* part_001 line 248: new FileStream(imagePath, FileMode.Create,
\* FileAccess.Write); it throws while another request holds the file open.
OpenFile(p) ==
    /\ procs[p].pc = "open"
    /\ IF HeldOpen(procs[p].path, p)
       THEN /\ procs' = [procs EXCEPT ![p].status = "exception", ![p].pc = "done"]
            /\ UNCHANGED cache
       ELSE /\ cache' = [cache EXCEPT ![procs[p].path] = CreateFile(@)]
            /\ procs' = [procs EXCEPT
                           ![p].after = {o \in Procs \ {p} :
                                            /\ procs[o].path = procs[p].path
                                            /\ procs[o].sent > 0},
                           ![p].pc = "write"]
    /\ UNCHANGED <<renderCalls, cacheRenders, failed, last, build, coreVars, loader, plugin>>

\* A writer that keeps the buffers and leaves the file alone.
WriteToFileBuffered(file, chunk) == file

\* part_001 line 255: writer.Write(buffer, 0, bytesRead).
WriteToFile(file, chunk) == [file EXCEPT !.bytes = Append(@, chunk)]

\* part_001 lines 252-257: one round of the loop, a buffer read and written.
WriteChunk(p) ==
    /\ procs[p].pc = "write"
    /\ procs[p].sent < ImageChunks
    /\ cache' = [cache EXCEPT ![procs[p].path] =
                     WriteToFile(@, Image(procs[p].serial)[procs[p].sent + 1])]
    /\ procs' = [procs EXCEPT ![p].sent = @ + 1]
    /\ UNCHANGED <<renderCalls, cacheRenders, failed, last, build, coreVars, loader, plugin>>

\* part_001 lines 254 and 259-261: Read returns 0, the file is closed.
CloseFile(p) ==
    /\ procs[p].pc = "write"
    /\ procs[p].sent = ImageChunks
    /\ procs' = [procs EXCEPT ![p].pc = "serve"]
    /\ UNCHANGED <<cache, renderCalls, cacheRenders, failed, last, build, coreVars, loader, plugin>>

\* part_001 lines 42 and 64: Response.WriteFile(imagePath) sends what the
\* file holds.
WriteFile(p) ==
    /\ procs[p].pc = "serve"
    /\ procs' = [procs EXCEPT ![p].status = "image",
                              ![p].body = cache[procs[p].path].bytes,
                              ![p].pc = "done"]
    /\ UNCHANGED <<cache, renderCalls, cacheRenders, failed, last, build, coreVars, loader, plugin>>

\* part_001 lines 42 and 64: Response.WriteFile refused because another
\* request holds the file open for writing (whether the runtime lets a
\* reader in while the writer's FileStream is open is its choice: both
\* outcomes are admitted).
WriteFileRefused(p) ==
    /\ procs[p].pc = "serve"
    /\ HeldOpen(procs[p].path, p)
    /\ procs' = [procs EXCEPT ![p].status = "exception", ![p].pc = "done"]
    /\ UNCHANGED <<cache, renderCalls, cacheRenders, failed, last, build, coreVars, loader, plugin>>

NextConc ==
    \E p \in Procs :
        \/ FileExists(p)
        \/ Render(p)
        \/ OpenFile(p)
        \/ WriteChunk(p)
        \/ CloseFile(p)
        \/ WriteFile(p)
        \/ WriteFileRefused(p)

SpecConc == InitConc /\ [][NextConc]_vars

(***************************************************************************)
(* The Core class of the JavaScript integrations (src/unnamed/part_000).   *)
(* One Core instance, the page it lives in, and the calls an integration   *)
(* makes on it: setIntegrationModel, openModalDialog, updateFormula.       *)
(***************************************************************************)
Null == "null"

\* An integration model: the optional hooks Core tests for before it calls
\* them (getMathmlFromTextNode at line 642, fillNonLatexNode at line 432).
IntegrationModel(name, getMathmlFromTextNode, fillNonLatexNode) == [name |-> name, getMathmlFromTextNode |-> getMathmlFromTextNode, fillNonLatexNode |-> fillNonLatexNode]

IntegrationModels ==
    {IntegrationModel("generic", FALSE, FALSE),
     IntegrationModel("custom", TRUE, TRUE)}

\* part_000 line 118: the constructor leaves integrationModel null.
NoIntegrationModel == IntegrationModel(Null, FALSE, FALSE)

\* The document of the page, as far as Core looks at it: document.selection
\* exists in old Internet Explorer only, where document.getSelection is
\* missing; elsewhere document.getSelection is a function.
Documents ==
    {[selection |-> FALSE, getSelection |-> "function"],
     [selection |-> TRUE, getSelection |-> "undefined"]}

\* JavaScript's v == 0 for the values document.getSelection takes: a function
\* converts to its source text and then to NaN, undefined equals only null
\* and undefined.
LooseEqualsZero(v) == v \in {"0", "false", ""}

\* part_000 lines 488 and 554: document.selection && document.getSelection == 0.
LegacySelection(document) == document.selection /\ LooseEqualsZero(document.getSelection)

\* What the selection of the target holds when the editor is opened: nothing,
\* a formula image, another element, a text node with a LaTeX formula around
\* the caret, a text node without one.
Selections == {"none", "formulaImage", "element", "latexText", "plainText"}

\* The targets openModalDialog is called on.
Targets == {Null, "div", "textarea"}

\* A field that holds no object: null.  The dialogs and content managers
\* made are numbered from 1.
NoObject == 0

\* part_000 lines 36-152: the fields the constructor sets.
Core_constructor ==
    [language |-> "en", editMode |-> "images", modalDialog |-> NoObject,
     contentManager |-> NoObject, integrationModel |-> NoIntegrationModel,
     isNewElement |-> TRUE, temporalImage |-> Null, latexRange |-> Null,
     range |-> Null]

\* The page before any call: no dialog and no content manager exist, and
\* the editor was opened on no target.
NewPage(document) ==
    [document |-> document, modalDialogs |-> 0, contentManagers |-> 0,
     cmLoaded |-> FALSE, cmIsNewElement |-> "undefined", cmMathML |-> Null,
     cmIntegrationModel |-> Null, target |-> Null]

\* A JavaScript boolean stored in a field that starts undefined.
BoolText(b) == IF b THEN "true" ELSE "false"

\* The MathML held by the attribute of the temporal image: the one of the
\* formula image selected, or the one made from the LaTeX found.
ImageMathml(image) == IF image = "selectedImage" THEN "mathmlOfImage" ELSE "mathmlOfLatex"

\* openModalDialog that forgets to go back to the 'images' mode.
ResetOnOpenKeepingEditMode(c, target, hasRange) == [c EXCEPT !.range = IF target # Null /\ hasRange THEN "range" ELSE Null, !.latexRange = Null]

\* part_000 lines 595-622: the edit mode goes back to 'images'; the range of
\* the selection is kept, or null when reading it throws (a null target
\* throws at focus()); latexRange is cleared.
ResetOnOpen(c, target, hasRange) == [c EXCEPT !.editMode = "images", !.range = IF target # Null /\ hasRange THEN "range" ELSE Null, !.latexRange = Null]

\* part_000 lines 675-709: the range around the LaTeX found, unless the
\* target is a textarea; a TextRange where document.selection exists.
LatexRangeOf(target, document) ==
    IF target = "textarea" THEN Null
    ELSE IF document.selection THEN "textRange" ELSE "range"

\* part_000 lines 640-711: a text node is selected; a formula found at the
\* caret turns the edit mode to 'latex' and makes the temporal image.  An
\* integration with getMathmlFromTextNode sets no latexRange.
TextNodeSelected(c, target, sel, document) ==
    IF sel # "latexText" THEN c
    ELSE IF c.integrationModel.getMathmlFromTextNode
         THEN [c EXCEPT !.editMode = "latex", !.isNewElement = FALSE,
                        !.temporalImage = "createdImage"]
         ELSE [c EXCEPT !.editMode = "latex", !.isNewElement = FALSE,
                        !.temporalImage = "createdImage",
                        !.latexRange = LatexRangeOf(target, document)]

\* part_000 lines 624-720: what the selected item does to the Core.  Nothing
\* here sets isNewElement to true or temporalImage to null.
SelectItem(c, target, sel, document) ==
    IF target = Null THEN c
    ELSE IF sel = "formulaImage"
         THEN [c EXCEPT !.temporalImage = "selectedImage", !.isNewElement = FALSE]
    ELSE IF sel \in {"latexText", "plainText"}
         THEN TextNodeSelected(c, target, sel, document)
    ELSE IF sel = "none" /\ target = "textarea"
         THEN [c EXCEPT !.editMode = "latex"]
    ELSE c

\* part_000 lines 758-762 and 770-774: the content manager is told whether
\* the formula is new, and the MathML of the temporal image when there is one.
TellContentManager(c, pg) ==
    [pg EXCEPT !.cmIsNewElement = BoolText(c.isNewElement),
               !.cmMathML = IF c.temporalImage # Null
                            THEN ImageMathml(c.temporalImage) ELSE @]

\* openModalDialog that makes a new dialog and content manager at every call.
ShowDialogAlwaysCreating(c, pg) ==
    [core |-> [c EXCEPT !.modalDialog = pg.modalDialogs + 1,
                        !.contentManager = pg.contentManagers + 1],
     page |-> [pg EXCEPT !.modalDialogs = @ + 1, !.contentManagers = @ + 1,
                         !.cmLoaded = FALSE,
                         !.cmIntegrationModel = c.integrationModel.name],
     created |-> TRUE, opened |-> TRUE]

\* part_000 lines 750-778: the first call makes the dialog and the content
\* manager, whose 'onLoad' listener tells it about the formula later; every
\* other call tells the existing content manager at once.  Each call ends
\* with contentManager.setIntegrationModel and modalDialog.open.
ShowDialog(c, pg) ==
    IF c.modalDialog = NoObject
    THEN [core |-> [c EXCEPT !.modalDialog = pg.modalDialogs + 1,
                             !.contentManager = pg.contentManagers + 1],
          page |-> [pg EXCEPT !.modalDialogs = @ + 1, !.contentManagers = @ + 1,
                              !.cmIntegrationModel = c.integrationModel.name],
          created |-> TRUE, opened |-> TRUE]
    ELSE [core |-> c,
          page |-> [TellContentManager(c, pg) EXCEPT
                        !.cmIntegrationModel = c.integrationModel.name],
          created |-> FALSE, opened |-> TRUE]

\* part_000 lines 595-778.
openModalDialog(c, pg, target, sel, hasRange) == ShowDialog(SelectItem(ResetOnOpen(c, target, hasRange), target, sel, pg.document), pg)

\* A node handed to insertElementOnSelection; NoElement is null.
Element(kind, mathml, properties) == [kind |-> kind, mathml |-> mathml, properties |-> properties]

NoElement == Element(Null, "", {})

\* What an insertion did: the Core after it, the branch taken, whether it
\* threw a TypeError.
Inserted(c, path, threw) == [core |-> c, path |-> path, threw |-> threw]

\* part_000 lines 483-551: the formula is new.  The element goes into the
\* textarea or at the range kept by openModalDialog, which is used up; with
\* no element the focus or the range is given back.
InsertNewElement(c, document, element, focusType) ==
    IF element # NoElement
    THEN IF focusType = "textarea" THEN Inserted(c, "updateTextArea", FALSE)
         ELSE IF LegacySelection(document) THEN Inserted(c, "execCommand", FALSE)
         ELSE Inserted([c EXCEPT !.range = Null], "insertAtRange", FALSE)
    ELSE IF focusType = "textarea" THEN Inserted(c, "focus", FALSE)
    ELSE Inserted([c EXCEPT !.range = Null], "restoreRange", FALSE)

\* part_000 lines 553-563: the LaTeX found by openModalDialog is replaced.
\* With a null element placeCaretAfterNode reads null.ownerDocument (line
\* 464) and throws.
InsertOverLatex(c, document, element, focusType) ==
    IF LegacySelection(document)
    THEN InsertNewElement([c EXCEPT !.isNewElement = TRUE], document, element, focusType)
    ELSE Inserted(c, "replaceLatex", element = NoElement)

\* part_000 lines 482-587.  In a textarea the text of the element replaces
\* the existing one: element.textContent throws on a null element (line
\* 574).  Otherwise the temporal image is overwritten, or removed.
insertElementOnSelection(c, document, element, focusType) ==
    IF c.isNewElement THEN InsertNewElement(c, document, element, focusType)
    ELSE IF c.latexRange # Null THEN InsertOverLatex(c, document, element, focusType)
    ELSE IF focusType = "textarea"
         THEN Inserted(c, "updateExistingText", element = NoElement)
    ELSE IF element.kind = "img" THEN Inserted(c, "cloneImage", FALSE)
    ELSE Inserted(c, "removeImage", FALSE)

\* What the listeners of one scope do to an event: nothing (none registered
\* counts as this), prevent the default, or rewrite the event's fields.
Reactions == {"none", "prevent", "rewrite"}

\* The arguments updateFormula is called with: the MathML and the extra
\* attributes of the formula, which may be missing.
UpdateArguments ==
    {<<"", Null>>, <<"mathml", "properties">>, <<"mathmlNoLatex", Null>>}

\* Latex.getLatexFromMathML gives a LaTeX string or nothing.
HasLatex(mathml) == mathml # "mathmlNoLatex"

\* part_000 lines 389-395: the event gets a copy of wirisProperties; the
\* copy of null is an empty object.
CloneProperties(wirisProperties) == IF wirisProperties = Null THEN {} ELSE {"attribute"}

\* The event of 'onBeforeFormulaInsertion'.
BeforeUpdateEvent(mathml, wirisProperties) == [mathml |-> mathml, wirisProperties |-> CloneProperties(wirisProperties)]

\* A listener that rewrites the event leaves its own MathML and property.
React(event, scope, reaction) ==
    IF reaction = "rewrite"
    THEN [mathml |-> "mathmlOf" \o scope,
          wirisProperties |-> event.wirisProperties \cup {scope}]
    ELSE event

\* part_000 lines 413-447: the node made from the event the listeners left:
\* none for an empty MathML, a text node or what fillNonLatexNode makes in
\* 'latex' mode, an iframe in 'iframes' mode, an image otherwise.
NodeOfEvent(c, event, mathml, wirisProperties) ==
    IF event.mathml = "" THEN NoElement
    ELSE IF c.editMode = "latex"
         THEN IF c.integrationModel.fillNonLatexNode /\ ~HasLatex(event.mathml)
              THEN Element("custom", event.mathml, {})
              ELSE Element("text", event.mathml, {})
    ELSE IF c.editMode = "iframes" THEN Element("iframe", event.mathml, {})
    ELSE Element("img", event.mathml, event.wirisProperties)

\* One firing of the listeners of a scope for an event.
Fired(scope, eventName) == <<scope, eventName>>

\* What a call of updateFormula did.
Updated(c, fired, inserts, path, threw) == [core |-> c, fired |-> fired, inserts |-> inserts, path |-> path, threw |-> threw]

\* part_000 lines 449-455: after the insertion the instance listeners of
\* 'onAfterFormulaInsertion' are fired and, unless they return true, the
\* global ones.  An insertion that threw ends the call before.
AfterInsertion(ins, element, fired, afterInstance) ==
    IF ins.threw THEN Updated(ins.core, fired, <<element>>, ins.path, TRUE)
    ELSE IF afterInstance = "prevent"
         THEN Updated(ins.core,
                      fired \o <<Fired("Instance", "onAfterFormulaInsertion")>>,
                      <<element>>, ins.path, FALSE)
    ELSE Updated(ins.core,
                 fired \o <<Fired("Instance", "onAfterFormulaInsertion"),
                            Fired("Global", "onAfterFormulaInsertion")>>,
                 <<element>>, ins.path, FALSE)

\* part_000 lines 425-447: one call of insertElementOnSelection, with the
\* node made in the branch taken.
InsertNode(c, document, focusType, element, fired, afterInstance) == AfterInsertion(insertElementOnSelection(c, document, element, focusType), element, fired, afterInstance)

\* part_000 lines 375-456.  The instance listeners of
\* 'onBeforeFormulaInsertion' are fired first, then the global ones; a true
\* from either returns at once.
updateFormula(c, document, focusType, mathml, wirisProperties, beforeInstance, beforeGlobal, afterInstance) ==
    IF beforeInstance = "prevent"
    THEN Updated(c, <<Fired("Instance", "onBeforeFormulaInsertion")>>, <<>>, "", FALSE)
    ELSE IF beforeGlobal = "prevent"
    THEN Updated(c, <<Fired("Instance", "onBeforeFormulaInsertion"),
                      Fired("Global", "onBeforeFormulaInsertion")>>, <<>>, "", FALSE)
    ELSE InsertNode(c, document, focusType,
                    NodeOfEvent(c, React(React(BeforeUpdateEvent(mathml, wirisProperties), "Instance", beforeInstance), "Global", beforeGlobal), mathml, wirisProperties),
                    <<Fired("Instance", "onBeforeFormulaInsertion"),
                      Fired("Global", "onBeforeFormulaInsertion")>>,
                    afterInstance)

\* What a call leaves for the observer; editModeBefore is the edit mode the
\* call started in.
Call(op, target, selection, created, opened, mathml, wirisProperties, reactions, u) == [op |-> op, editModeBefore |-> core.editMode, target |-> target, selection |-> selection, created |-> created, opened |-> opened, mathml |-> mathml, wirisProperties |-> wirisProperties, reactions |-> reactions, fired |-> u.fired, inserts |-> u.inserts, path |-> u.path, threw |-> u.threw]

NoUpdate == Updated(Core_constructor, <<>>, <<>>, "", FALSE)

NoReactions == <<"none", "none", "none">>

\* The image service is absent from the specifications of the scripts.
NoService ==
    /\ cache = [f \in CacheFileNames |-> NoFile]
    /\ renderCalls = 0
    /\ cacheRenders = [f \in CacheFileNames |-> 0]
    /\ failed = {}
    /\ last = [kind |-> "init"]
    /\ build = NoBuild
    /\ procs = NoProcs

InitCore ==
    /\ NoService
    /\ core = Core_constructor
    /\ \E document \in Documents : page = NewPage(document)
    /\ call = Call("constructor", Null, "none", FALSE, FALSE, "", Null, NoReactions, NoUpdate)
    /\ loader = NoLoader
    /\ plugin = NoPlugin

\* part_000 lines 282-284.
setIntegrationModel(integrationModel) ==
    /\ core' = [core EXCEPT !.integrationModel = integrationModel]
    /\ call' = Call("setIntegrationModel", Null, "none", FALSE, FALSE, "", Null, NoReactions, NoUpdate)
    /\ UNCHANGED <<page, serviceVars, loader, plugin>>

\* The selections a target can hold: none without a target, no image in a
\* textarea.
SelectionsOf(target) ==
    IF target = Null THEN {"none"}
    ELSE IF target = "textarea" THEN Selections \ {"formulaImage", "element"}
    ELSE Selections

\* A call of openModalDialog.  The callers are methods of the integration
\* model, which has set itself on the Core before.
OpenModalDialog(target, sel, hasRange) ==
    /\ core.integrationModel # NoIntegrationModel
    /\ sel \in SelectionsOf(target)
    /\ \E r \in {openModalDialog(core, page, target, sel, hasRange)} :
           /\ core' = r.core
           /\ page' = [r.page EXCEPT !.target = target]
           /\ call' = Call("openModalDialog", target, sel, r.created, r.opened, "", Null, NoReactions, NoUpdate)
    /\ UNCHANGED <<serviceVars, loader, plugin>>

\* part_000 lines 755-766: the content manager made by the first call fires
\* its 'onLoad' once it is ready, and the listener tells it about the formula
\* the Core holds by then.
ContentManagerLoaded ==
    /\ core.contentManager # NoObject
    /\ ~page.cmLoaded
    /\ page' = [TellContentManager(core, page) EXCEPT !.cmLoaded = TRUE]
    /\ call' = Call("contentManagerLoaded", Null, "none", FALSE, FALSE, "", Null, NoReactions, NoUpdate)
    /\ UNCHANGED <<core, serviceVars, loader, plugin>>

\* The element the integration passes as focusElement: the target it opened
\* the editor on.
FocusType(pg) == IF pg.target = "textarea" THEN "textarea" ELSE "other"

\* A call of updateFormula.
UpdateFormula(mathml, wirisProperties, reactions) ==
    /\ core.integrationModel # NoIntegrationModel
    /\ \E u \in {updateFormula(core, page.document, FocusType(page), mathml, wirisProperties, reactions[1], reactions[2], reactions[3])} :
           /\ core' = u.core
           /\ call' = Call("updateFormula", Null, "none", FALSE, FALSE, mathml, wirisProperties, reactions, u)
    /\ UNCHANGED <<page, serviceVars, loader, plugin>>

NextCore ==
    \/ \E integrationModel \in IntegrationModels : setIntegrationModel(integrationModel)
    \/ \E target \in Targets, sel \in Selections, hasRange \in BOOLEAN :
           OpenModalDialog(target, sel, hasRange)
    \/ ContentManagerLoaded
    \/ \E arguments \in UpdateArguments,
          reactions \in Reactions \X Reactions \X {"none", "prevent"} :
           UpdateFormula(arguments[1], arguments[2], reactions)

SpecCore == InitCore /\ [][NextCore]_vars

(***************************************************************************)
(* Core.init (part_000 lines 244-276): the configuration request, the      *)
(* language script and the 'onLoad' event.  Core.stringManager is static:  *)
(* every init of the page works on the same string manager.                *)
(***************************************************************************)
\* The init calls followed.
MaxInits == 2

\* part_000 line 317: the translated languages (some of them).
TranslatedLanguages == {"en", "es", "pt", "pt_br"}

\* The languages an integration sets on the Core before init.
RequestedLanguages == {"en", "es", "pt_br", "pt_PT", "en_US", "xx"}

\* part_000 lines 315-327: an unknown language is cut to its first two
\* characters, and replaced by 'en' when that is unknown too.
NormalisedLanguage(language) ==
    IF language \in TranslatedLanguages THEN language
    ELSE IF SubSeq(language, 1, Min2(2, Len(language))) \in TranslatedLanguages
         THEN SubSeq(language, 1, Min2(2, Len(language)))
    ELSE "en"

\* part_000 line 850: the string manager made when the class is loaded, with
\* no strings yet; no init was called, no script is loading.
Loader_initial ==
    [stringManager |-> "stringManager", strings |-> Null, scripts |-> <<>>,
     configured |-> FALSE, styles |-> 0, inits |-> 0, onLoad |-> <<>>,
     errors |-> 0]

\* One firing of 'onLoad' on the instance listeners, with the strings the
\* string manager held at that moment.
OnLoadFired(language, strings) == [language |-> language, strings |-> strings]

\* part_000 lines 261-271: with a null string manager the listener is added
\* to null, a TypeError; with a string manager 'onLoad' is fired at once.
FireOnLoad(l, language) ==
    IF l.stringManager = Null THEN [l EXCEPT !.errors = @ + 1]
    ELSE [l EXCEPT !.onLoad = Append(@, OnLoadFired(language, l.strings))]

\* part_000 lines 315-337 and 342-348: the script of the language is
\* appended to the head, where it loads later; so is the stylesheet.
LoadLanguageAndCSS(l, language) == [l EXCEPT !.configured = TRUE, !.scripts = Append(@, NormalisedLanguage(language)), !.styles = @ + 1]

\* part_000 lines 244-276: the request is synchronous (open with async =
\* false), so the onload handler runs inside init.  A failed request runs
\* no handler.
Core_init(l, language, response) ==
    IF response = "ok"
    THEN FireOnLoad(LoadLanguageAndCSS([l EXCEPT !.inits = @ + 1], language), language)
    ELSE [l EXCEPT !.inits = @ + 1]

\* part_000 lines 333-335: the onload of a script hands its strings to the
\* string manager of that moment; a null one throws.
Script_onload(l, i) ==
    IF l.stringManager = Null
    THEN [l EXCEPT !.scripts = SubSeq(@, 1, i - 1) \o SubSeq(@, i + 1, Len(@)),
                   !.errors = @ + 1]
    ELSE [l EXCEPT !.scripts = SubSeq(@, 1, i - 1) \o SubSeq(@, i + 1, Len(@)),
                   !.strings = l.scripts[i]]

InitLoad ==
    /\ NoService
    /\ core = NoCore /\ page = NoCore /\ call = NoCore
    /\ loader = Loader_initial
    /\ plugin = NoPlugin

\* A call of init on a Core of the page.
CallInit(language, response) ==
    /\ loader.inits < MaxInits
    /\ loader' = Core_init(loader, language, response)
    /\ UNCHANGED <<serviceVars, coreVars, plugin>>

\* A script appended by loadLanguage has loaded; scripts load in any order.
ScriptLoaded(i) ==
    /\ i \in 1..Len(loader.scripts)
    /\ loader' = Script_onload(loader, i)
    /\ UNCHANGED <<serviceVars, coreVars, plugin>>

\* part_000 lines 834-836: the static setter replaces the string manager,
\* by null or by one that holds no strings (replacing an empty one by an
\* empty one changes nothing).
setStringManager(stringManager) ==
    /\ loader.stringManager # stringManager \/ loader.strings # Null
    /\ loader' = [loader EXCEPT !.stringManager = stringManager, !.strings = Null]
    /\ UNCHANGED <<serviceVars, coreVars, plugin>>

NextLoad ==
    \/ \E language \in RequestedLanguages, response \in {"ok", "failed"} :
           CallInit(language, response)
    \/ \E i \in 1..MaxInits : ScriptLoaded(i)
    \/ \E stringManager \in {Null, "stringManager"} : setStringManager(stringManager)

SpecLoad == InitLoad /\ [][NextLoad]_vars

(***************************************************************************)
(* The MathType plugin of CKEditor5 (src/ckeditor5/src/mathtype.js): the   *)
(* editors of a page, the plugin's init on each, and what the user does    *)
(* with the editor afterwards.                                             *)
(***************************************************************************)
Editors == {"editor1", "editor2"}

\* The double clicks followed on one editor.
MaxClicks == 2

\* mathtype.js line 57: let integration; nothing is made yet.
NoIntegration == [constructed |-> FALSE, initialised |-> FALSE, targetReady |-> FALSE, checked |-> FALSE]

NoExecution == [command |-> "", integration |-> "undefined"]

\* An editor before the plugin's init; sourceElement tells whether the
\* editor has a source element.
NewEditor(sourceElement) ==
    [sourceElement |-> sourceElement, initialised |-> FALSE,
     integration |-> NoIntegration, clickListener |-> FALSE,
     commands |-> {}, buttons |-> {}, clicked |-> 0, doubleClicks |-> 0,
     executed |-> NoExecution]

\* The plugin starting the integration whether or not there is a target.
StartIntegrationAlways(ed) == [ed EXCEPT !.integration = [constructed |-> TRUE, initialised |-> TRUE, targetReady |-> TRUE, checked |-> TRUE], !.clickListener = TRUE]

\* mathtype.js lines 55-74: with a target, the integration is constructed,
\* initialised, 'onTargetReady' is fired, the element is checked and the
\* click listener is registered; without one nothing of this happens.
StartIntegration(ed) ==
    IF ed.sourceElement
    THEN [ed EXCEPT !.integration = [constructed |-> TRUE, initialised |-> TRUE,
                                     targetReady |-> TRUE, checked |-> TRUE],
                    !.clickListener = TRUE]
    ELSE ed

\* mathtype.js lines 76-120: the two commands and the two buttons are added
\* in both cases.
AddCommandsAndButtons(ed) == [ed EXCEPT !.commands = {"MathTypeEditor", "ChemTypeEditor"}, !.buttons = {"MathTypeEditor", "ChemTypeEditor"}]

\* mathtype.js lines 29-155.
MathType_init(ed) == AddCommandsAndButtons(StartIntegration([ed EXCEPT !.initialised = TRUE]))

\* mathtype.js lines 66-72: the listener hands a double click to the
\* integration; without the listener no one hears the click.
ClickListener(ed, detail) ==
    IF ed.clickListener /\ detail = 2
    THEN [ed EXCEPT !.clicked = detail, !.doubleClicks = @ + 1]
    ELSE [ed EXCEPT !.clicked = detail]

\* mathtype.js lines 93-97 and 113-117: a button executes its command with
\* the integration variable of init, undefined when none was made.
ButtonExecute(ed, command) == [ed EXCEPT !.executed = [command |-> command, integration |-> IF ed.integration.constructed THEN "integration" ELSE "undefined"]]

InitPlugin ==
    /\ NoService
    /\ core = NoCore /\ page = NoCore /\ call = NoCore
    /\ loader = NoLoader
    /\ plugin \in [Editors -> {NewEditor(sourceElement) : sourceElement \in BOOLEAN}]

\* The editor loads its plugins: init runs once.
PluginInit(e) ==
    /\ ~plugin[e].initialised
    /\ plugin' = [plugin EXCEPT ![e] = MathType_init(@)]
    /\ UNCHANGED <<serviceVars, coreVars, loader>>

\* The user clicks in the editing view.
Click(e, detail) ==
    /\ plugin[e].initialised
    /\ plugin[e].doubleClicks < MaxClicks
    /\ plugin' = [plugin EXCEPT ![e] = ClickListener(@, detail)]
    /\ UNCHANGED <<serviceVars, coreVars, loader>>

\* The user presses one of the two buttons.
Press(e, command) ==
    /\ command \in plugin[e].buttons
    /\ plugin' = [plugin EXCEPT ![e] = ButtonExecute(@, command)]
    /\ UNCHANGED <<serviceVars, coreVars, loader>>

NextPlugin ==
    \E e \in Editors :
        \/ PluginInit(e)
        \/ \E detail \in {1, 2} : Click(e, detail)
        \/ \E command \in {"MathTypeEditor", "ChemTypeEditor"} : Press(e, command)

SpecPlugin == InitPlugin /\ [][NextPlugin]_vars


(***************************************************************************)
(* Properties.                                                             *)
(***************************************************************************)
Handled == last.kind # "init"

CacheableRequest == Handled /\ last.kind = "formula" /\ last.cacheable

DirectRequest == Handled /\ last.kind = "formula" /\ ~last.cacheable

\* The descriptor the last request names exists and parses.
DescriptorLoads == ~Dispatched[last.query].img.threw

FullFile(serial) == [exists |-> TRUE, bytes |-> Image(serial)]

\* C1: for requests handled one after another, a cacheable request that
\* finds no cache file (its descriptor loading, the render and the write
\* succeeding) invokes the renderer exactly once, leaves the whole image in
\* <identifier>.png and serves it; a cacheable request that finds the file
\* serves exactly the stored bytes, leaves the file as it is and does not
\* invoke the renderer; so as long as no rendering request for the
\* identifier threw, cacheable requests invoked the renderer at most once
\* for it.
C1_RenderOnceThenServeStored ==
    /\ CacheableRequest =>
        /\ (~last.fileBefore.exists /\ DescriptorLoads /\ last.out = OutcomeOk) =>
              /\ Len(last.renders) = 1
              /\ cache[last.imagePath] = FullFile(last.serial)
              /\ last.status = "image"
              /\ last.body = Image(last.serial)
              /\ cacheRenders[last.imagePath] >= 1
        /\ last.fileBefore.exists =>
              /\ last.renders = <<>>
              /\ cache[last.imagePath] = last.fileBefore
              /\ last.status = "image"
              /\ last.body = last.fileBefore.bytes
    /\ \A f \in CacheFileNames : f \notin failed => cacheRenders[f] <= 1

\* C1 witness: a second cacheable request for eq1 served the bytes the first
\* one rendered, the count for eq1.png still 1.
C1_Witness ==
    /\ CacheableRequest
    /\ last.formula = "eq1"
    /\ last.fileBefore = FullFile(1)
    /\ last.body = Image(1)
    /\ cacheRenders["eq1.png"] = 1
    /\ renderCalls = 1

\* C2: a formula request with an override key performs no operation on the
\* cache directory and leaves <identifier>.png as it was, whether or not the
\* file exists; whenever its descriptor loads it invokes the renderer
\* exactly once, with the parameters createImage built, and what it sends
\* is that invocation's stream.
C2_OverrideBypassesCache ==
    DirectRequest =>
        /\ \A i \in 1..Len(last.ops) : last.ops[i].dir # "cache"
        /\ cache[last.imagePath] = last.fileBefore
        /\ DescriptorLoads =>
              /\ last.renders = <<Dispatched[last.query].img.properties>>
              /\ last.body = SubSeq(Image(last.serial), 1, last.out.read)
        /\ (DescriptorLoads /\ last.out = OutcomeOk) => last.status = "image"

\* C2 witness: an override request for eq1 rendered although eq1.png existed.
C2_Witness ==
    /\ DirectRequest
    /\ last.formula = "eq1"
    /\ last.fileBefore = FullFile(1)
    /\ Len(last.renders) = 1
    /\ last.body = Image(2)

\* An identifier with a path-traversal segment.
TraversalIdentifier(id) ==
    \/ \E i \in 1..Len(id) : CharAt(id, i) \in {"/", "\\"}
    \/ \E i \in 1..(Len(id) - 1) : SubSeq(id, i, i + 1) = ".."

\* C3: a request whose formula parameter holds a path-traversal segment is
\* rejected before any file of the formula or cache directory is probed,
\* read or written: it invokes no renderer and serves no image (stated for
\* the requests in which nothing fails; the empty identifier, which the
\* code also probes files for, is left out of this statement).
C3_InvalidIdentifierRejected ==
    (Handled /\ HasParam(last.query, "formula") /\ last.out = OutcomeOk
             /\ TraversalIdentifier(Param(last.query, "formula"))) =>
        /\ \A i \in 1..Len(last.ops) : last.ops[i].dir \notin {"formula", "cache"}
        /\ last.renders = <<>>
        /\ last.status # "image"

\* The cache files of the formula identifiers the requests name.
FormulaCacheFiles ==
    {GetFileNameWithoutExtension(Param(q, "formula")) \o ".png" :
        q \in {r \in Queries : HasParam(r, "formula")}}

\* C4: once a cacheable request has created <identifier>.png, no request of
\* any kind modifies, overwrites or deletes the file (stated for the requests
\* in which nothing fails).
C4_ArtifactNeverModified ==
    [][\A f \in FormulaCacheFiles :
          (cache[f].exists /\ cacheRenders[f] > 0 /\ f \notin failed
                           /\ last'.out = OutcomeOk)
              => cache'[f] = cache[f]]_vars

\* C5: an mml-only request leaves the cache file of every formula
\* identifier as it was, and the bytes it serves are not a formula's cache
\* entry (stated for the requests in which nothing fails).
C5_MmlLeavesFormulaCache ==
    [][(last'.kind = "mml" /\ last'.out = OutcomeOk) =>
          \A f \in FormulaCacheFiles :
              /\ cache'[f] = cache[f]
              /\ last'.imagePath # f]_vars

\* C6: every mml-only request invokes the renderer once, with exactly
\* {mml: query.mml}; when nothing fails it leaves that invocation's image in
\* temp.png, having created and written the file before it reads it, and
\* serves it; an image it serves is always the one of its own invocation,
\* never bytes an earlier request left in the slot.
C6_MmlAlwaysFresh ==
    (Handled /\ last.kind = "mml") =>
        /\ last.renders = <<[k \in {"mml"} |-> Param(last.query, "mml")]>>
        /\ last.imagePath = "temp.png"
        /\ last.out = OutcomeOk =>
              /\ cache["temp.png"] = FullFile(last.serial)
              /\ last.status = "image"
              /\ last.ops = loadConfigOps
                            \o <<FileOp("create", "cache", "temp.png")>>
                            \o [i \in 1..ImageChunks |->
                                   FileOp("write", "cache", "temp.png")]
                            \o <<FileOp("read", "cache", "temp.png")>>
        /\ last.status = "image" => last.body = Image(last.serial)

\* C6 witness: the second of two mml requests found the first one's image in
\* the slot and served its own.
C6_Witness ==
    /\ Handled /\ last.kind = "mml"
    /\ last.fileBefore = FullFile(1)
    /\ last.body = Image(2)
    /\ renderCalls = 2

\* A query entry that counts as a caller override.
OverrideEntry(e) ==
    /\ ~e.null
    /\ \/ e.key \in {xmlFileAttributes[j] : j \in 1..Len(xmlFileAttributes)}
       \/ (Len(e.key) >= 4 /\ SubSeq(e.key, 1, 4) = "font")

\* C7: mustBeCached is true exactly when no key of the query is one of the
\* override attribute names or starts with "font"; null keys and the values
\* play no part.
C7_MustBeCachedIffNoOverrideKey ==
    (Handled /\ last.kind = "formula") =>
        (last.cacheable <=>
            \A i \in 1..Len(last.query) : ~OverrideEntry(last.query[i]))

\* C7 witness: a query with a null key and a three-letter key was cacheable.
C7_Witness ==
    /\ CacheableRequest
    /\ \E i \in 1..Len(last.query) : last.query[i].null
    /\ \E i \in 1..Len(last.query) : last.query[i].key = "fon"

\* C8: when the remote render of a cacheable request fails (the call throws
\* or the stream breaks while it is read), <identifier>.png is left as it
\* was: not created, not truncated, not partly written.
C8_FailedRenderLeavesCacheUntouched ==
    (CacheableRequest /\ Len(last.renders) > 0
                      /\ last.out.render \in {"throws", "breaks"}) =>
        cache[last.imagePath] = last.fileBefore

\* C9: when the render succeeds and the write of the cache file fails, the
\* cacheable request still answers with the rendered image.
C9_WriteFailureStillServes ==
    (CacheableRequest /\ Len(last.renders) > 0
                      /\ last.out.write \in {"openFails", "writeFails"}) =>
        /\ last.status = "image"
        /\ last.body = Image(last.serial)

\* The descriptor of identifier id is missing, or is a key/value file
\* without an mml key or with a key outside the translation table.
DescriptorMissing(id) ==
    (id \o ".ini") \notin FormulaFileNames /\ (id \o ".xml") \notin FormulaFileNames

DescriptorMalformed(id) ==
    /\ (id \o ".ini") \in FormulaFileNames
    /\ LET pairs == FormulaFiles[id \o ".ini"]
       IN  \/ \A i \in 1..Len(pairs) : pairs[i][1] # "mml"
           \/ \E i \in 1..Len(pairs) :
                 /\ pairs[i][1] # "mml"
                 /\ ~HasFontPrefix(pairs[i][1])
                 /\ pairs[i][1] \notin DOMAIN imageConfigProperties

NoDigestRequest ==
    /\ Handled
    /\ ~HasParam(last.query, "formula")
    /\ ~HasParam(last.query, "mml")

Built == build.kind = "built" /\ ~build.threw

\* The descriptor of the last call as its parser returns it: the payload,
\* the config table (the server's, with the file's values written into it)
\* and the fonts.
BuildParsed ==
    IF build.ext = "ini"
    THEN getConfigurationAndFontsFromIni(build.server, build.id \o ".ini")
    ELSE getConfigurationAndFonts(build.server, build.id \o ".xml")

\* The parameter names the caller of the last call overrides.
Overridden ==
    IF build.useParams
    THEN {build.query[i].key :
              i \in {j \in 1..Len(build.query) : OverrideEntry(build.query[j])}}
    ELSE {}

NoFiller(d) ==
    \A j \in 1..Len(xmlFileAttributes) :
        xmlFileAttributes[j] \in DOMAIN d.attributes =>
            \A i \in 1..j : xmlFileAttributes[i] \in DOMAIN d.attributes

\* C16: a logical descriptor written once in the legacy line format and once
\* in the key/value format is parsed to the same mathml, config and fonts by
\* the two parsers, and the render parameters built from the two are the
\* same (stated for the descriptors that need no filler line).
C16_FormatsAgree ==
    (Built /\ \E i \in 1..Len(LogicalDescriptors) :
                  build.id = WrittenId(i) /\ NoFiller(LogicalDescriptors[i])) =>
        LET legacy == getConfigurationAndFonts(build.server, build.id \o ".xml")
            ini    == getConfigurationAndFontsFromIni(build.server, build.id \o ".ini")
        IN  /\ legacy.mathml = ini.mathml
            /\ legacy.config = ini.config
            /\ legacy.fonts = ini.fonts
            /\ createImage(build.server, build.id, "xml", build.useParams,
                           build.query).properties
               = createImage(build.server, build.id, "ini", build.useParams,
                             build.query).properties

\* The range names of the last call's config that have a value there, in the
\* order of the list.
ValuedRanges ==
    LET config == BuildParsed.config
        Valued(name) == Has(config, Trim(name))
    IN  IF Has(config, "wirisimagefontranges")
        THEN SelectSeq(Split(config["wirisimagefontranges"], ","), Valued)
        ELSE <<>>

\* The key the j-th valued range (from 0) is emitted under, and its value.
RangeKey(j) == "font" \o ToString(Cardinality(DOMAIN BuildParsed.fonts) + j)

RangeValue(j) == Trim(BuildParsed.config[Trim(ValuedRanges[j + 1])])

RangeKeys == {RangeKey(j) : j \in 0..(Len(ValuedRanges) - 1)}

\* C17: for a descriptor with k fonts, the j-th range name that has a value
\* in the config (from 0, in list order) is emitted as font<k+j> with the
\* trimmed value; names without a value are skipped and use no number, and
\* no other font parameter is emitted (stated for the parameters the caller
\* does not override).
C17_RangesNumberedFromFontCount ==
    Built =>
        /\ \A j \in 0..(Len(ValuedRanges) - 1) :
               RangeKey(j) \notin Overridden =>
                   /\ Has(build.properties, RangeKey(j))
                   /\ build.properties[RangeKey(j)] = RangeValue(j)
        /\ {p \in DOMAIN build.properties : HasFontPrefix(p)}
               \subseteq ((DOMAIN BuildParsed.fonts) \cup RangeKeys \cup Overridden
                          \cup {"fontSize"})

\* C17 witness: two descriptor fonts and three range names of which the
\* middle one has no value gave font2 and font3 and no font4.
C17_Witness ==
    /\ Built
    /\ DOMAIN BuildParsed.fonts = {"font0", "font1"}
    /\ Len(ValuedRanges) = 2
    /\ Len(Split(BuildParsed.config["wirisimagefontranges"], ",")) = 3
    /\ build.properties["font2"] = "10-20"
    /\ build.properties["font3"] = "30-40"
    /\ ~Has(build.properties, "font4")

\* The render parameters of the last call's descriptor with no caller
\* parameter at all.
BuildBase ==
    createImage(build.server, build.id, build.ext, FALSE, <<>>).properties

\* C18: when overrides are applied, every query parameter whose name is in
\* the attribute list or starts with "font" is in the render parameters with
\* the caller's value, whatever the descriptor or the font ranges gave for
\* it; no other query parameter is added and the other render parameters
\* are as without the query; when overrides are not applied the render
\* parameters are those built without any query.
C18_OverridesOnlyListedKeys ==
    Built =>
        IF build.useParams
        THEN /\ DOMAIN build.properties = (DOMAIN BuildBase) \cup Overridden
             /\ \A p \in Overridden :
                    build.properties[p] = Param(build.query, p)
             /\ \A p \in (DOMAIN BuildBase) \ Overridden :
                    build.properties[p] = BuildBase[p]
        ELSE build.properties = BuildBase

\* C18 witness: the caller's font1 replaced the value the descriptor and the
\* ranges gave for font1, and the parameters "other" and "formula" of the
\* same query were not added.
C18_Witness ==
    /\ Built /\ build.useParams
    /\ HasParam(build.query, "other")
    /\ Has(BuildBase, "font1")
    /\ BuildBase["font1"] # "times"
    /\ build.properties["font1"] = "times"
    /\ ~Has(build.properties, "other")
    /\ ~Has(build.properties, "formula")

C20_RangeReplacesCollidingFont ==
    Built =>
        \A key \in (DOMAIN BuildParsed.fonts) \ Overridden :
            /\ Has(build.properties, key)
            /\ build.properties[key] =
                  IF key \in RangeKeys
                  THEN RangeValue(CHOOSE j \in 0..(Len(ValuedRanges) - 1) :
                                      RangeKey(j) = key)
                  ELSE BuildParsed.fonts[key]

\* C20 witness: a key/value descriptor whose only font is font1 was built
\* with the first range's value under font1, the descriptor's value gone.
C20_Witness ==
    /\ Built
    /\ build.id = "only1"
    /\ BuildParsed.fonts = [k \in {"font1"} |-> "arial"]
    /\ "font1" \in RangeKeys \ Overridden
    /\ build.properties["font1"] = "10-20"

\* C21: the cacheable path calls createImage with useParams false (line
\* 227) where the dispatcher's contract builds with overrides applied; for
\* every query for which mustBeCached is true the two builds give the same
\* render parameters, whatever other keys the query carries.
C21_CacheableBuildIgnoresNoOverride ==
    (build.kind = "built" /\ mustBeCached(build.query)) =>
        LET handler  == createImage(build.server, build.id, build.ext, FALSE,
                                    build.query)
            contract == createImage(build.server, build.id, build.ext, TRUE,
                                    build.query)
        IN  /\ handler.threw = contract.threw
            /\ handler.properties = contract.properties
            /\ build.properties = contract.properties

\* C21 witness: a query that mustBeCached accepts although it carries keys
\* besides formula (fon, other, a null key) was built without overrides and
\* got the parameters of the build with overrides.
C21_Witness ==
    /\ Built /\ ~build.useParams
    /\ mustBeCached(build.query)
    /\ HasParam(build.query, "fon") /\ HasParam(build.query, "other")
    /\ build.properties = createImage(build.server, build.id, build.ext, TRUE,
                                      build.query).properties
    /\ ~Has(build.properties, "fon")

(***************************************************************************)
(* Properties of requests handled at the same time (SpecConc).             *)
(***************************************************************************)
\* Request p is a cacheable formula request.
Cacheable(p) == procs[p].kind = "formula" /\ Dispatched[procs[p].query].cacheable

\* Request p has written its whole image and closed the file.
Saved(p) == procs[p].sent = ImageChunks /\ procs[p].pc \in {"serve", "done"}

\* The first n buffers of the image of the serial-th render.
Prefix(serial, n) == SubSeq(Image(serial), 1, n)

\* C12: nothing keeps two cacheable requests for one identifier apart: each
\* one that saw the cache file absent invokes the renderer (one that saw it
\* present does not), and once both have written, the file holds the whole
\* image of the one that opened it last and nothing of the other's.
C12_BothRenderLastWriterRemains ==
    \A p \in Procs : Cacheable(p) =>
        /\ procs[p].pc \in {"open", "write"} => (~procs[p].saw /\ procs[p].serial > 0)
        /\ procs[p].saw => (procs[p].serial = 0 /\ procs[p].sent = 0)
        /\ \A o \in procs[p].after :
               (Cacheable(o) /\ Saved(o) /\ Saved(p)) =>
                   /\ procs[o].serial # procs[p].serial
                   /\ cache[procs[p].path] = FullFile(procs[p].serial)

\* C12 witness: two cacheable requests for eq1 both saw eq1.png absent, both
\* rendered and both wrote; the file is the image of the second writer.
C12_Witness ==
    \E p, o \in Procs :
        /\ p # o /\ Cacheable(p) /\ Cacheable(o)
        /\ procs[p].path = procs[o].path
        /\ ~procs[p].saw /\ ~procs[o].saw
        /\ procs[p].serial > 0 /\ procs[o].serial > 0
        /\ Saved(p) /\ Saved(o)
        /\ o \in procs[p].after
        /\ cache[procs[p].path] = FullFile(procs[p].serial)

C14_MmlRequestsShareSlot ==
    \A p \in Procs : procs[p].kind = "mml" =>
        /\ procs[p].path = "temp.png"
        /\ procs[p].serial > 0 =>
               procs[p].properties = [k \in {"mml"} |-> Param(procs[p].query, "mml")]
        /\ procs[p].status = "image" =>
               \E o \in Procs, n \in 0..ImageChunks :
                   /\ procs[o].kind = "mml"
                   /\ procs[o].serial > 0
                   /\ procs[p].body = Prefix(procs[o].serial, n)

\* C14 witness: a raw-mml request served the whole image rendered from the
\* other request's different payload.
C14_Witness ==
    \E p, o \in Procs :
        /\ procs[p].kind = "mml" /\ procs[o].kind = "mml"
        /\ Param(procs[p].query, "mml") # Param(procs[o].query, "mml")
        /\ procs[p].serial > 0 /\ procs[o].serial > 0
        /\ procs[p].status = "image"
        /\ procs[p].body = Image(procs[o].serial)
        /\ procs[o].properties["mml"] = Param(procs[o].query, "mml")

(***************************************************************************)
(* Properties of the Core instance.                                        *)
(***************************************************************************)
Opened == call.op = "openModalDialog"

\* The call found a formula to edit: a formula image or LaTeX text selected.
FormulaSelected == call.target # Null /\ call.selection \in {"formulaImage", "latexText"}

\* C22: after every call of openModalDialog, isNewElement is true exactly
\* when the call selected no formula image and no LaTeX text, and
\* temporalImage is null when the formula is new; nothing is left over from
\* an earlier edit of an existing formula.
C22_FlagTellsNewFormula ==
    Opened => /\ core.isNewElement <=> ~FormulaSelected
              /\ ~FormulaSelected => core.temporalImage = Null

Updating == call.op = "updateFormula"

\* The MathML the listeners of 'onBeforeFormulaInsertion' left in the event.
MathmlLeft ==
    IF call.reactions[2] = "rewrite" THEN "mathmlOfGlobal"
    ELSE IF call.reactions[1] = "rewrite" THEN "mathmlOfInstance"
    ELSE call.mathml

\* The extra attributes the listeners left in the event.
PropertiesLeft ==
    (IF call.wirisProperties = Null THEN {} ELSE {"attribute"})
        \cup {scope \in {"Instance", "Global"} :
                 call.reactions[IF scope = "Instance" THEN 1 ELSE 2] = "rewrite"}

\* C24: in updateFormula the instance listeners of 'onBeforeFormulaInsertion'
\* are fired before the global ones, which are not fired when the instance
\* fire returns true; when either returns true nothing is inserted and
\* 'onAfterFormulaInsertion' is not fired; otherwise there is exactly one
\* insertElementOnSelection call, with the MathML and the properties the
\* listeners left, followed by 'onAfterFormulaInsertion' on the instance
\* listeners and, unless they return true, on the global listeners.
C24_ListenersAroundOneInsertion ==
    Updating =>
        IF call.reactions[1] = "prevent"
        THEN /\ call.fired = <<Fired("Instance", "onBeforeFormulaInsertion")>>
             /\ call.inserts = <<>>
        ELSE IF call.reactions[2] = "prevent"
        THEN /\ call.fired = <<Fired("Instance", "onBeforeFormulaInsertion"),
                               Fired("Global", "onBeforeFormulaInsertion")>>
             /\ call.inserts = <<>>
        ELSE /\ Len(call.inserts) = 1
             /\ call.inserts[1].mathml = MathmlLeft
             /\ call.inserts[1].kind = "img" => call.inserts[1].properties = PropertiesLeft
             /\ call.fired =
                    <<Fired("Instance", "onBeforeFormulaInsertion"),
                      Fired("Global", "onBeforeFormulaInsertion"),
                      Fired("Instance", "onAfterFormulaInsertion")>>
                    \o (IF call.reactions[3] = "prevent" THEN <<>>
                        ELSE <<Fired("Global", "onAfterFormulaInsertion")>>)

\* The call found LaTeX at the selected text node.
LatexFound == call.target # Null /\ call.selection = "latexText"

\* C25: editMode is always 'images' or 'latex'; after an openModalDialog
\* call it is 'latex' exactly when LaTeX was found at the selected text node
\* or the target is a textarea with nothing selected, whatever the mode the
\* call started in.
C25_EditModeResetOnOpen ==
    /\ core.editMode \in {"images", "latex"}
    /\ Opened =>
           (core.editMode = "latex"
                <=> (LatexFound \/ (call.target = "textarea" /\ call.selection = "none")))

\* An open on a formula image or on plain content that started in 'latex'.
C25_Witness ==
    /\ Opened /\ call.editModeBefore = "latex"
    /\ call.target = "div" /\ call.selection \in {"formulaImage", "none", "plainText"}
    /\ core.editMode = "images"

\* C26: at most one ModalDialog and one ContentManager are ever made, by the
\* first openModalDialog call, and later calls reuse them; modalDialog is
\* null exactly when contentManager is; every call ends with the integration
\* model set on the content manager and the dialog opened.
C26_OneDialogReused ==
    /\ page.modalDialogs <= 1 /\ page.contentManagers <= 1
    /\ core.modalDialog = NoObject <=> core.contentManager = NoObject
    /\ core.modalDialog = NoObject <=> page.modalDialogs = 0
    /\ Opened =>
           /\ core.modalDialog = 1 /\ core.contentManager = 1
           /\ page.cmIntegrationModel = core.integrationModel.name
           /\ call.opened

\* A later call that made nothing and set the custom integration model on
\* the content manager made by the first call.
C26_Witness ==
    /\ Opened /\ ~call.created
    /\ page.modalDialogs = 1 /\ page.contentManagers = 1 /\ page.cmLoaded
    /\ core.integrationModel.name = "custom"
    /\ page.cmIntegrationModel = "custom"

(***************************************************************************)
(* Properties of Core.init.                                                *)
(***************************************************************************)
\* C23: 'onLoad' is fired on the instance listeners only after the language
\* strings were loaded into the string manager: every firing found strings
\* there, whatever the order of the configuration response and the script
\* load.
C23_OnLoadAfterStrings ==
    \A i \in 1..Len(loader.onLoad) : loader.onLoad[i].strings # Null

(***************************************************************************)
(* Properties of the CKEditor5 plugin.                                     *)
(***************************************************************************)
\* C27: the plugin starts the integration only if the editor has a source
\* element: once init has run, the integration is constructed, initialised,
\* 'onTargetReady' fired and the double-click listener registered exactly
\* when the source element is present; without it no integration is ever
\* initialised and no double click is handled.
C27_IntegrationOnlyWithTarget ==
    \A e \in Editors :
        /\ plugin[e].initialised =>
               /\ plugin[e].integration.constructed <=> plugin[e].sourceElement
               /\ plugin[e].integration.initialised <=> plugin[e].sourceElement
               /\ plugin[e].integration.targetReady <=> plugin[e].sourceElement
               /\ plugin[e].clickListener <=> plugin[e].sourceElement
        /\ ~plugin[e].sourceElement =>
               /\ plugin[e].integration = NoIntegration
               /\ plugin[e].doubleClicks = 0
               /\ plugin[e].executed.integration = "undefined"

\* One editor without source element was initialised, double-clicked and its
\* button pressed; the other, with a source element, handled a double click.
C27_Witness ==
    \E e, f \in Editors :
        /\ ~plugin[e].sourceElement /\ plugin[e].initialised
        /\ plugin[e].clicked = 2 /\ plugin[e].executed.command = "MathTypeEditor"
        /\ plugin[f].sourceElement /\ plugin[f].integration.initialised
        /\ plugin[f].doubleClicks = 1

====
